---- MODULE Spec2Model ----
(***************************************************************************)
(* Model of fiftyone/utils/plot/matplotlib.py: MatplotlibPlot, the         *)
(* interactive selection layer over a matplotlib collection.               *)
(*                                                                         *)
(* Numbers are scaled to integers: opacities and the click tolerance are   *)
(* in hundredths (100 = 1.0, 25 = 0.25, 2 = 0.02); coordinates and marker  *)
(* sizes are integers.  Point indices start at 0 as in the code; the       *)
(* per-point buffers are sequences, so point i lives at position i+1.      *)
(***************************************************************************)
EXTENDS Integers, Sequences, FiniteSets, TLC

\* ------------------------------------------------------------------ bounds
MaxSelLen == 2
MaxConnects == 2
MaxButtons == 1

\* ------------------------------------------------------- program constants
AlphaOtherDefault == 25
ExpandSelectedDefault == 3
ClickToleranceDefault == 2
Opaque == 100

None == "None"

\* expand_selected is kept as a sequence: << >> for None, <<k>> for factor k
NoExpand == << >>

\* ------------------------------------------------------------ the fixture
\* The collection's offsets (collection.get_offsets()), fixed at construction.
_xy == << <<10, 10>>, <<50, 10>>, <<10, 50>> >>

_num_pts == Len(_xy)

Indices == 0 .. (_num_pts - 1)

\* Lasso paths a user can draw.  Each is the vertex list handed to _onselect.
Gestures ==
    { << >>,                                              \* empty path
      << <<10, 10>> >>,                                   \* one vertex, on point 0
      << <<50, 11>>, <<51, 11>> >>,                       \* tiny drag next to point 1
      << <<30, 30>>, <<30, 30>> >>,                       \* press/release far from all
      << <<5, 45>>, <<15, 45>>, <<10, 60>> >>,            \* lasso around 2
      << <<5, 5>>, <<55, 5>>, <<55, 15>>, <<5, 15>> >>,   \* lasso around 0, 1
      << <<50, 0>>, <<60, 10>>, <<10, 60>>, <<0, 50>> >>, \* lasso around 1, 2
      << <<0, 0>>, <<100, 0>>, <<0, 100>> >>,             \* lasso around 0, 1, 2
      << <<60, 60>>, <<70, 60>>, <<65, 70>> >> }          \* lasso around nothing

\* ------------------------------------------------------------- sequences
Abs(n) == IF n < 0 THEN -n ELSE n

Min2(a, b) == IF a < b THEN a ELSE b

SetOf(s) == { s[i] : i \in 1 .. Len(s) }

RECURSIVE SortedSeq(_)
\* sorted(set): the elements of a finite set of integers in ascending order
SortedSeq(S) ==
    IF S = {} THEN << >>
    ELSE LET m == CHOOSE x \in S : \A y \in S : x <= y
         IN  <<m>> \o SortedSeq(S \ {m})

\* np.unique(a): sorted, without duplicates
NpUnique(a) == SortedSeq(SetOf(a))

\* np.tile(v, n)
Tile(v, n) == [i \in 1 .. n |-> v]

IsNormalized(s) == \A i \in 1 .. Len(s) - 1 : s[i] < s[i + 1]

\* ---------------------------------------------------- gesture classifier
\* 100 * click_thresh, where
\* click_thresh = click_tolerance * min(abs(x2 - x1), abs(y2 - y1))
ClickThresh(tol, xl, yl) ==
    tol * Min2(Abs(xl[2] - xl[1]), Abs(yl[2] - yl[1]))

RECURSIVE PathLen(_)
\* np.abs(np.diff(vertices, axis=0)).sum(): 0 for fewer than two vertices
PathLen(v) ==
    IF Len(v) < 2 THEN 0
    ELSE Abs(v[2][1] - v[1][1]) + Abs(v[2][2] - v[1][2]) + PathLen(Tail(v))

\* a click test that also accepts a path as long as the threshold
IsClickInclusive(v, tol, xl, yl) ==
    100 * PathLen(v) <= ClickThresh(tol, xl, yl)

\* is_click = np.abs(np.diff(vertices, axis=0)).sum() < click_thresh
IsClick(v, tol, xl, yl) == 100 * PathLen(v) < ClickThresh(tol, xl, yl)

\* the square of an entry of skp.euclidean_distances(self._xy, [vertices[0]])
Dist2(p, q) == (p[1] - q[1]) * (p[1] - q[1]) + (p[2] - q[2]) * (p[2] - q[2])

\* np.argmin(dists): the first index of a nearest point
ArgMin(q) ==
    CHOOSE i \in Indices :
        /\ \A j \in Indices : Dist2(_xy[i + 1], q) <= Dist2(_xy[j + 1], q)
        /\ \A j \in Indices :
               Dist2(_xy[j + 1], q) = Dist2(_xy[i + 1], q) => i <= j

\* a click branch that also takes a nearest point at exactly click_thresh
ClickIndsInclusive(v, tol, xl, yl) ==
    LET click_ind == ArgMin(v[1])
        thresh == ClickThresh(tol, xl, yl)
    IN  IF 100 * 100 * Dist2(_xy[click_ind + 1], v[1]) <= thresh * thresh
        THEN <<click_ind>>
        ELSE << >>

\* the click branch: the nearest point, if it is closer than click_thresh
ClickInds(v, tol, xl, yl) ==
    LET click_ind == ArgMin(v[1])
        thresh == ClickThresh(tol, xl, yl)
    IN  IF 100 * 100 * Dist2(_xy[click_ind + 1], v[1]) < thresh * thresh
        THEN <<click_ind>>
        ELSE << >>

\* Does the edge a -> b cross the ray from p towards +x ?
Crosses(p, a, b) ==
    /\ (a[2] > p[2]) # (b[2] > p[2])
    /\ LET dy == b[2] - a[2]
           lhs == (p[1] - a[1]) * dy
           rhs == (p[2] - a[2]) * (b[1] - a[1])
       IN  IF dy > 0 THEN lhs < rhs ELSE lhs > rhs

\* Path(vertices).contains_points([p]): the path is closed implicitly
Contains(v, p) ==
    LET n == Len(v)
        crossing == { i \in 1 .. n : Crosses(p, v[i], v[(i % n) + 1]) }
    IN  Cardinality(crossing) % 2 = 1

\* the drag branch: np.nonzero(path.contains_points(self._xy))[0]
DragInds(v) == SortedSeq({ i \in Indices : Contains(v, _xy[i + 1]) })

\* The first half of _onselect: the indices a gesture stands for, or the
\* exception it ends with.  An empty vertex list has no vertices[0] (click
\* branch) and is no Nx2 array for Path (drag branch).
Classify(v, tol, xl, yl) ==
    IF IsClick(v, tol, xl, yl)
    THEN IF Len(v) = 0
         THEN [err |-> "IndexError", inds |-> << >>]
         ELSE [err |-> None, inds |-> ClickInds(v, tol, xl, yl)]
    ELSE IF Len(v) = 0
         THEN [err |-> "ValueError", inds |-> << >>]
         ELSE [err |-> None, inds |-> DragInds(v)]

\* ------------------------------------------------------ selection merger
\* MergeShift with the subset test inverted
MergeShiftInverted(cur, new) ==
    LET new_inds == SetOf(new)
        inds == SetOf(cur)
    IN  IF new_inds \subseteq inds
        THEN SortedSeq(inds \cup new_inds)
        ELSE SortedSeq(inds \ new_inds)

\* The shift branch of _onselect: subtract a subset, otherwise add.
MergeShift(cur, new) ==
    LET new_inds == SetOf(new)
        inds == SetOf(cur)
    IN  IF new_inds \subseteq inds
        THEN SortedSeq(inds \ new_inds)
        ELSE SortedSeq(inds \cup new_inds)

\* Merge that always merges, shift or not
MergeAlways(shift, cur, new) == MergeShift(cur, new)

\* lines 236-249 of _onselect
Merge(shift, cur, new) ==
    IF shift THEN MergeShift(cur, new) ELSE NpUnique(new)

\* inds.size == self._inds.size and np.all(inds == self._inds)
SameInds(a, b) ==
    /\ Len(a) = Len(b)
    /\ \A i \in 1 .. Len(a) : a[i] = b[i]

\* -------------------------------------------------------- style applier
\* _prep_collection on the opacity buffer: a buffer shorter than the point
\* count is fetched again and, if still short, replicated from its first
\* entry.  Every entry is overwritten by _update_plot right after, so the
\* two outcomes of the fetch differ in nothing the model keeps.
PrepFc(fc) == IF Len(fc) < _num_pts THEN Tile(fc[1], _num_pts) ELSE fc

\* _prep_collection on the size buffer
PrepMs(ms, expand) ==
    IF expand # NoExpand /\ Len(ms) < _num_pts
    THEN Tile(ms[1], _num_pts)
    ELSE ms

\* the opacity column after _update_plot
UpdateFc(fc, inds, alpha) ==
    LET p == PrepFc(fc)
    IN  IF Len(inds) = 0
        THEN [i \in 1 .. Len(p) |-> Opaque]
        ELSE [i \in 1 .. Len(p) |->
                 IF (i - 1) \in SetOf(inds) THEN Opaque ELSE alpha]

\* a size update that scales the selected points but skips the reset of the
\* buffer to the initial size
UpdateMsNoReset(ms, inds, expand, init_ms) ==
    LET p == PrepMs(ms, expand)
    IN  IF expand = NoExpand THEN p
        ELSE [i \in 1 .. Len(p) |->
                 IF (i - 1) \in SetOf(inds)
                 THEN expand[1] * init_ms
                 ELSE p[i]]

\* the size buffer after _update_plot
UpdateMs(ms, inds, expand, init_ms) ==
    LET p == PrepMs(ms, expand)
    IN  IF expand = NoExpand THEN p
        ELSE [i \in 1 .. Len(p) |->
                 IF (i - 1) \in SetOf(inds)
                 THEN expand[1] * init_ms
                 ELSE init_ms]

\* ==================================================================== state
VARIABLES
    alpha_other,        \* self.alpha_other, in hundredths
    expand_selected,    \* self.expand_selected: NoExpand or <<factor>>
    click_tolerance,    \* self.click_tolerance, in hundredths
    xlim,               \* self.ax.get_xlim()
    ylim,               \* self.ax.get_ylim()
    _select_callback,   \* None or the registered callback
    _fc,                \* opacity column of self._fc
    _ms,                \* self._ms
    _init_ms,           \* self._init_ms
    _inds,              \* self._inds, the stored selection
    _lasso,             \* None or the LassoSelector
    _shift,             \* self._shift
    _title,             \* self._title: its text and visibility
    _button_defs,       \* the callbacks of self._button_defs, by label
    _buttons,           \* self._buttons: label, visibility, click observers
    _figure_events,     \* self._figure_events (connection ids)
    _keypress_events,   \* self._keypress_events (connection ids)
    _connected,         \* InteractivePlot.is_connected
    canvas_callbacks,   \* the canvas' registry of connected listeners
    closed,             \* the host window has been closed
    numConnects,        \* how many times _connect has run
    lastOp,             \* the operation that ran last
    err,                \* the exception it ended with, or None
    draws,              \* how many times it called self.draw()
    notified,           \* the arguments it passed to _select_callback
    lastG,              \* the index set it classified the gesture as
    clickTrace,         \* the steps of its button click handlers, in order
    lastVertices,       \* the vertex list of the gesture it handled
    lastKind,           \* the branch the gesture took: "click" or "drag"
    lastKey,            \* the key of the key event it handled
    seen,               \* the selection and buffers its callback could read
    lastPointer         \* the last pointer event since _connect

config == <<alpha_other, expand_selected, click_tolerance, xlim, ylim, _init_ms>>

sel == <<_inds, _fc, _ms>>

hud == <<_title, _buttons>>

wiring ==
    <<_lasso, _figure_events, _keypress_events, _connected,
      canvas_callbacks, numConnects>>

obs ==
    <<lastOp, err, draws, notified, lastG, clickTrace, lastVertices, lastKind,
      lastKey, seen>>

vars ==
    <<config, sel, hud, wiring, obs, _select_callback, _shift, _button_defs,
      closed, lastPointer>>

SelectText == "Click or drag to select points"

ShiftText == "Click or drag to add/remove points"

\* what an operation did and was given, for the properties below
ObserveOp(op, e, d, n, g, t, vertices, kind, key, s) ==
    /\ lastOp' = op
    /\ err' = e
    /\ draws' = d
    /\ notified' = n
    /\ lastG' = g
    /\ clickTrace' = t
    /\ lastVertices' = vertices
    /\ lastKind' = kind
    /\ lastKey' = key
    /\ seen' = s

\* the same, for an operation that is neither a gesture nor a key event
Observe(op, e, d, n, g, t) ==
    ObserveOp(op, e, d, n, g, t, << >>, "none", "none", << >>)

\* ------------------------------------------------------------ input sets
Tolerances == {ClickToleranceDefault}

Views == { << <<0, 100>>, <<0, 100>> >> }

\* the collection's initial style: one shared entry, or one entry per point
InitStyles ==
    { [fc |-> <<60>>, ms |-> <<2>>],
      [fc |-> [i \in 1 .. _num_pts |-> 60],
       ms |-> [i \in 1 .. _num_pts |-> 1 + i]] }

\* click tolerances for the geometry of the classifier: none, the default,
\* and a quarter of the view
GeomTolerances == {0, ClickToleranceDefault, 25}

\* views for the geometry of the classifier: 100 by 100, the same with the
\* x axis inverted, and one with no extent in y
GeomViews ==
    { << <<0, 100>>, <<0, 100>> >>,
      << <<100, 0>>, <<0, 100>> >>,
      << <<0, 100>>, <<50, 50>> >> }

\* Paths that probe the classifier: the empty path, single vertices on
\* point 0, at distance 2 from it and half way between points 0 and 1, a
\* drag of length 1 next to point 1, and a lasso around points 0 and 1.
GeomGestures ==
    { << >>,
      << <<10, 10>> >>,
      << <<12, 10>> >>,
      << <<30, 10>> >>,
      << <<50, 11>>, <<51, 11>> >>,
      << <<5, 5>>, <<55, 5>>, <<55, 15>>, <<5, 15>> >> }

\* the buttons argument of the constructor
CtorButtons == { << >>, <<"custom">> }

RECURSIVE SeqsUpTo(_, _)
\* the sequences over S of length at most n
SeqsUpTo(S, n) ==
    IF n = 0 THEN { << >> }
    ELSE LET shorter == SeqsUpTo(S, n - 1)
         IN  shorter \cup
             { Append(q, x) : q \in { r \in shorter : Len(r) = n - 1 }, x \in S }

\* the index lists passed to select_inds
SelInputs == SeqsUpTo(Indices, MaxSelLen)

\* a few index lists, for the runs that are about the lifecycle
SampleInputs == { << >>, <<1>>, <<1, 0>> }

Keys == {"shift", "a"}

\* ===================================================================== Init
\* __init__ (which ends with _init_hud), for a click tolerance of tols and
\* a view of views
InitWith(tols, views) ==
    /\ alpha_other = AlphaOtherDefault
    /\ expand_selected \in {NoExpand, <<ExpandSelectedDefault>>}
    /\ click_tolerance \in tols
    /\ \E v \in views : xlim = v[1] /\ ylim = v[2]
    /\ \E st \in InitStyles : _fc = st.fc /\ _ms = st.ms /\ _init_ms = st.ms[1]
    /\ _select_callback = None
    /\ _inds = << >>
    /\ _lasso = None
    /\ _shift = FALSE
    /\ _button_defs \in CtorButtons
    /\ _title = [text |-> "", visible |-> TRUE]
    /\ _buttons =
           [i \in 1 .. Len(_button_defs) |->
               [label |-> _button_defs[i], visible |-> FALSE,
                observers |-> << >>]]
    /\ _figure_events = << >>
    /\ _keypress_events = << >>
    /\ _connected = FALSE
    /\ canvas_callbacks = {}
    /\ closed = FALSE
    /\ numConnects = 0
    /\ lastOp = "__init__"
    /\ err = None
    /\ draws = 0
    /\ notified = << >>
    /\ lastG = << >>
    /\ clickTrace = << >>
    /\ lastVertices = << >>
    /\ lastKind = "none"
    /\ lastKey = "none"
    /\ seen = << >>
    /\ lastPointer = "none"

\* __init__ with the default click tolerance and a view of 100 by 100
Init == InitWith(Tolerances, Views)

\* ================================================================== actions
\* ---------------------------------------------------------- registration
\* _register_selection_callback
_register_selection_callback ==
    /\ ~closed
    /\ _select_callback = None
    /\ _select_callback' = "callback"
    /\ Observe("_register_selection_callback", None, 0, << >>, << >>, << >>)
    /\ UNCHANGED <<config, sel, hud, wiring, _shift, _button_defs, closed,
                   lastPointer>>

\* _register_sync_callback and _register_disconnect_callback: the button is
\* appended to _button_defs; _buttons was built by _init_hud in __init__.
\* Collaborators register their buttons before the first connect().
RegisterButton(label) ==
    /\ ~closed
    /\ numConnects = 0
    /\ Len(_button_defs) < MaxButtons
    /\ label \notin SetOf(_button_defs)
    /\ _button_defs' = Append(_button_defs, label)
    /\ Observe("_register_" \o label \o "_callback", None, 0, << >>, << >>,
               << >>)
    /\ UNCHANGED <<config, sel, hud, wiring, _select_callback, _shift, closed,
                   lastPointer>>

_register_sync_callback == RegisterButton("sync")

_register_disconnect_callback == RegisterButton("disconnect")

\* -------------------------------------------------------------------- HUD
\* _update_hud(visible), on the title
HudTitle(t, visible) == [t EXCEPT !.visible = visible]

\* _update_hud(visible), on the buttons
HudButtons(bs, visible) ==
    [i \in 1 .. Len(bs) |-> [bs[i] EXCEPT !.visible = visible]]

_update_hud(visible) ==
    /\ _title' = HudTitle(_title, visible)
    /\ _buttons' = HudButtons(_buttons, visible)

\* the argument _onenter passes to _update_hud
OnEnterVisible == TRUE

\* _onexit showing the HUD
OnExitVisibleWrong == TRUE

\* the argument _onexit passes to _update_hud
OnExitVisible == FALSE

\* figure_enter_event
_onenter ==
    /\ ~closed
    /\ "figure_enter_event" \in canvas_callbacks
    /\ _update_hud(OnEnterVisible)
    /\ lastPointer' = "enter"
    /\ Observe("_onenter", None, 1, << >>, << >>, << >>)
    /\ UNCHANGED <<config, sel, wiring, _select_callback, _shift,
                   _button_defs, closed>>

\* figure_leave_event
_onexit ==
    /\ ~closed
    /\ "figure_leave_event" \in canvas_callbacks
    /\ _update_hud(OnExitVisible)
    /\ lastPointer' = "exit"
    /\ Observe("_onexit", None, 1, << >>, << >>, << >>)
    /\ UNCHANGED <<config, sel, wiring, _select_callback, _shift,
                   _button_defs, closed>>

\* key_press_event
_onkeypress(key) ==
    /\ ~closed
    /\ "key_press_event" \in canvas_callbacks
    /\ IF key = "shift"
       THEN /\ _shift' = TRUE
            /\ _title' = [_title EXCEPT !.text = ShiftText]
            /\ ObserveOp("_onkeypress", None, 1, << >>, << >>, << >>, << >>,
                         "none", key, << >>)
       ELSE /\ UNCHANGED <<_shift, _title>>
            /\ ObserveOp("_onkeypress", None, 0, << >>, << >>, << >>, << >>,
                         "none", key, << >>)
    /\ UNCHANGED <<config, sel, _buttons, wiring, _select_callback,
                   _button_defs, closed, lastPointer>>

\* a shift release that leaves the title text as it is
TitleOnReleaseStale(t) == t

\* the title after a release of shift: the plain text again
TitleOnRelease(t) == [t EXCEPT !.text = SelectText]

\* key_release_event
_onkeyrelease(key) ==
    /\ ~closed
    /\ "key_release_event" \in canvas_callbacks
    /\ IF key = "shift"
       THEN /\ _shift' = FALSE
            /\ _title' = TitleOnRelease(_title)
            /\ ObserveOp("_onkeyrelease", None, 1, << >>, << >>, << >>, << >>,
                         "none", key, << >>)
       ELSE /\ UNCHANGED <<_shift, _title>>
            /\ ObserveOp("_onkeyrelease", None, 0, << >>, << >>, << >>, << >>,
                         "none", key, << >>)
    /\ UNCHANGED <<config, sel, _buttons, wiring, _select_callback,
                   _button_defs, closed, lastPointer>>

\* a click handler that calls back before it restyles
ClickStepsCallbackFirst(callback) == <<callback, "set_facecolor", "draw">>

\* The steps of one click handler made by _make_callback, in order.
ClickSteps(callback) == <<"set_facecolor", "draw", callback>>

RECURSIVE ClickAll(_)
\* Button runs its observers in the order they were registered
ClickAll(observers) ==
    IF observers = << >> THEN << >>
    ELSE ClickSteps(Head(observers)) \o ClickAll(Tail(observers))

\* A click on the i-th button.  The toolkit delivers it to the button's
\* observers only while the button's axes are visible.
ClickButton(i) ==
    /\ ~closed
    /\ _buttons[i].visible
    /\ _buttons[i].observers # << >>
    /\ Observe("click", None, Len(_buttons[i].observers), << >>, << >>,
               ClickAll(_buttons[i].observers))
    /\ UNCHANGED <<config, sel, hud, wiring, _select_callback, _shift,
                   _button_defs, closed, lastPointer>>

\* -------------------------------------------------------------- lifecycle
FigureEvents == <<"figure_enter_event", "figure_leave_event">>

KeypressEvents == <<"key_press_event", "key_release_event">>

\* button.on_clicked(_callback) for each pair of zip(_buttons, _button_defs),
\* followed by _update_hud(False)
ConnectButtons(bs, defs) ==
    [i \in 1 .. Len(bs) |->
        IF i <= Len(defs)
        THEN [bs[i] EXCEPT !.observers = Append(@, defs[i]),
                           !.visible = FALSE]
        ELSE [bs[i] EXCEPT !.visible = FALSE]]

\* _connect
_connect ==
    /\ _lasso' = "LassoSelector"
    /\ _buttons' = ConnectButtons(_buttons, _button_defs)
    /\ _title' = [text |-> SelectText, visible |-> FALSE]
    /\ _figure_events' = FigureEvents
    /\ _keypress_events' = KeypressEvents
    /\ canvas_callbacks' =
           canvas_callbacks \cup SetOf(FigureEvents) \cup SetOf(KeypressEvents)
    /\ UNCHANGED <<sel, _select_callback>>

\* connect(): the base class runs _connect on a plot that is not connected
\* and marks it connected.
connect ==
    /\ ~_connected
    /\ numConnects < MaxConnects
    /\ _connect
    /\ _connected' = TRUE
    /\ numConnects' = numConnects + 1
    /\ lastPointer' = "none"
    /\ Observe("connect", None, 0, << >>, << >>, << >>)
    /\ UNCHANGED <<config, _shift, _button_defs, closed>>

\* _disconnect without its guard
DisconnectNeverReturnsEarly == FALSE

\* the guard of _disconnect: nothing to do unless connected
DisconnectReturnsEarly == ~_connected

\* the exception _disconnect ends with: self._lasso.disconnect_events() on
\* a _lasso of None is an AttributeError
DisconnectErr ==
    IF ~DisconnectReturnsEarly /\ _lasso = None
    THEN "AttributeError"
    ELSE None

\* the value _disconnect passes to _update_hud
DisconnectVisible == FALSE

\* a _disconnect that also clears the stored selection
_disconnectClearsSelection ==
    IF DisconnectReturnsEarly \/ DisconnectErr # None
    THEN UNCHANGED <<_lasso, _figure_events, _keypress_events,
                     canvas_callbacks, _shift, hud, sel, _select_callback>>
    ELSE /\ _inds' = << >>
         /\ UNCHANGED <<_fc, _ms, _select_callback>>
         /\ _lasso' = None
         /\ canvas_callbacks' =
                canvas_callbacks \
                    (SetOf(_figure_events) \cup SetOf(_keypress_events))
         /\ _shift' = FALSE
         /\ _figure_events' = << >>
         /\ _keypress_events' = << >>
         /\ _update_hud(DisconnectVisible)

\* _disconnect
_disconnect ==
    IF DisconnectReturnsEarly \/ DisconnectErr # None
    THEN UNCHANGED <<_lasso, _figure_events, _keypress_events,
                     canvas_callbacks, _shift, hud, sel, _select_callback>>
    ELSE /\ UNCHANGED <<sel, _select_callback>>
         /\ _lasso' = None
         /\ canvas_callbacks' =
                canvas_callbacks \
                    (SetOf(_figure_events) \cup SetOf(_keypress_events))
         /\ _shift' = FALSE
         /\ _figure_events' = << >>
         /\ _keypress_events' = << >>
         /\ _update_hud(DisconnectVisible)

\* lastPointer follows the wiring: no pointer event has been handled once
\* the listeners are gone
PointerAfterDisconnect ==
    IF DisconnectReturnsEarly \/ DisconnectErr # None
    THEN lastPointer
    ELSE "none"

\* disconnect(): the base class does nothing on a plot that is not
\* connected; otherwise it runs _disconnect and then marks the plot
\* disconnected.
disconnect ==
    /\ _disconnect
    /\ _connected' = (_connected /\ DisconnectErr # None)
    /\ lastPointer' = PointerAfterDisconnect
    /\ Observe("disconnect", DisconnectErr, 0, << >>, << >>, << >>)
    /\ UNCHANGED <<config, _button_defs, closed, numConnects>>

\* close_event: lambda e: self._disconnect()
OnClose ==
    /\ _disconnect
    /\ closed' = TRUE
    /\ lastPointer' = PointerAfterDisconnect
    /\ Observe("close_event", DisconnectErr, 0, << >>, << >>, << >>)
    /\ UNCHANGED <<config, _button_defs, _connected, numConnects>>

\* -------------------------------------------------------------- selection
\* Notify that never calls
NotifyNever(callback, inds) == << >>

\* the call of _select_callback at the end of _onselect
Notify(callback, inds) == IF callback # None THEN <<inds>> ELSE << >>

\* a callback that runs before _select_inds reads the plot as it was
SeenByCallbackBefore(callback, before, after) ==
    IF callback # None THEN <<before>> ELSE << >>

\* what the selection callback can read from the plot when it is called:
\* _select_inds has returned by then
SeenByCallback(callback, before, after) ==
    IF callback # None THEN <<after>> ELSE << >>

\* the lasso's onselect
_onselect(vertices) ==
    /\ ~closed
    /\ _lasso # None
    /\ LET c == Classify(vertices, click_tolerance, xlim, ylim)
           inds == Merge(_shift, _inds, c.inds)
           kind == IF IsClick(vertices, click_tolerance, xlim, ylim)
                   THEN "click"
                   ELSE "drag"
       IN  IF c.err # None
           THEN /\ UNCHANGED sel
                /\ ObserveOp("_onselect", c.err, 0, << >>, << >>, << >>,
                             vertices, kind, "none", << >>)
           ELSE IF SameInds(inds, _inds)
           THEN /\ UNCHANGED sel
                /\ ObserveOp("_onselect", None, 1, << >>, c.inds, << >>,
                             vertices, kind, "none", << >>)
           ELSE /\ _inds' = inds
                /\ _fc' = UpdateFc(_fc, inds, alpha_other)
                /\ _ms' = UpdateMs(_ms, inds, expand_selected, _init_ms)
                /\ ObserveOp("_onselect", None, 0,
                             Notify(_select_callback, inds), c.inds, << >>,
                             vertices, kind, "none",
                             SeenByCallback(_select_callback, sel, sel'))
    /\ UNCHANGED <<config, hud, wiring, _select_callback, _shift,
                   _button_defs, closed, lastPointer>>

\* self._ms[inds] with inds = np.asarray([]): an empty list becomes an array
\* of floats, which is no index
SelectIndsErr(inds, expand) ==
    IF expand # NoExpand /\ Len(inds) = 0 THEN "IndexError" ELSE None

\* select_inds(inds) -> _select_inds(inds); None stands for the empty list
_select_inds(inds) ==
    /\ ~closed
    /\ _inds' = inds
    /\ _fc' = UpdateFc(_fc, inds, alpha_other)
    /\ _ms' = UpdateMs(_ms, inds, expand_selected, _init_ms)
    /\ Observe("_select_inds", SelectIndsErr(inds, expand_selected), 0,
               << >>, << >>, << >>)
    /\ UNCHANGED <<config, hud, wiring, _select_callback, _shift,
                   _button_defs, closed, lastPointer>>

\* ===================================================================== Next
\* the selection side: gestures, the shift key, programmatic selection
NextSel ==
    \/ _register_selection_callback
    \/ connect
    \/ disconnect
    \/ \E key \in Keys : _onkeypress(key)
    \/ \E key \in Keys : _onkeyrelease(key)
    \/ \E vertices \in Gestures : _onselect(vertices)
    \/ \E inds \in SelInputs : _select_inds(inds)

\* the lifecycle and HUD side: wiring, pointer, keys, buttons, close
NextHud ==
    \/ _register_sync_callback
    \/ _register_disconnect_callback
    \/ connect
    \/ disconnect
    \/ OnClose
    \/ _onenter
    \/ _onexit
    \/ \E key \in Keys : _onkeypress(key)
    \/ \E key \in Keys : _onkeyrelease(key)
    \/ \E i \in 1 .. Len(_buttons) : ClickButton(i)
    \/ \E inds \in SampleInputs : _select_inds(inds)

\* the classifier side: gestures under several tolerances and views
NextGeom ==
    \/ connect
    \/ \E key \in Keys : _onkeypress(key)
    \/ \E key \in Keys : _onkeyrelease(key)
    \/ \E vertices \in GeomGestures : _onselect(vertices)

Next == NextSel \/ NextHud

Spec == Init /\ [][Next]_vars

\* the program driven through its selection operations only
SpecSel == Init /\ [][NextSel]_vars

\* the program driven through its lifecycle and HUD operations
SpecHud == Init /\ [][NextHud]_vars

\* __init__ with any of the tolerances and views of the classifier geometry
InitGeom == InitWith(GeomTolerances, GeomViews)

\* the program driven through gestures, for several tolerances and views
SpecGeom == InitGeom /\ [][NextGeom]_vars

\* =============================================================== properties
\* the HUD as the user sees it: a title shows when it is visible and has text
TitleShown == _title.visible /\ _title.text # ""

HudShown == TitleShown /\ \A i \in 1 .. Len(_buttons) : _buttons[i].visible

HudHidden == ~TitleShown /\ \A i \in 1 .. Len(_buttons) : ~_buttons[i].visible

\* C1: a gesture handled while shift is held, with current selection S and
\* classified set G, leaves S \ G if G is a subset of S and S \cup G otherwise.
C1_AdditiveMerge ==
    [][(lastOp' = "_onselect" /\ err' = None /\ _shift) =>
          LET S == SetOf(_inds)
              G == SetOf(lastG')
          IN  SetOf(_inds') = IF G \subseteq S THEN S \ G ELSE S \cup G]_vars

\* C1 happens: shift held, {1} subtracted from {0, 1, 2}
C1_Witness ==
    /\ lastOp = "_onselect"
    /\ _shift
    /\ lastG = <<1>>
    /\ _inds = <<0, 2>>

\* C2: a gesture handled while shift is up makes the selection exactly the
\* classified set G, whatever was selected before.
C2_Replace ==
    [][(lastOp' = "_onselect" /\ err' = None /\ ~_shift) =>
          _inds' = lastG']_vars

\* C2 happens: shift up, a lasso around 1 and 2 replaced another selection
C2_Witness ==
    /\ lastOp = "_onselect"
    /\ ~_shift
    /\ lastG = <<1, 2>>
    /\ _inds = <<1, 2>>
    /\ notified = << <<1, 2>> >>

\* C3: a gesture whose merged result has the same indices as the previous
\* selection, in any order, changes neither the selection nor the style
\* buffers, notifies nobody, and requests a redraw.
C3_NoOpGesture ==
    [][(lastOp' = "_onselect" /\ err' = None
            /\ SetOf(_inds') = SetOf(_inds)) =>
          (UNCHANGED sel /\ notified' = << >> /\ draws' >= 1)]_vars

\* C4: select_inds never invokes the selection callback; a gesture that
\* changes the set of selected indices invokes the registered callback
\* exactly once, with the new selection.
C4_Notification ==
    [][/\ (lastOp' = "_select_inds" => notified' = << >>)
       /\ (lastOp' = "_onselect" /\ _select_callback # None
               /\ SetOf(_inds') # SetOf(_inds)) =>
             notified' = <<_inds'>>]_vars

\* C4 happens: a gesture changed the selection and the callback got it
C4_Witness ==
    /\ lastOp = "_onselect"
    /\ _select_callback # None
    /\ _inds = <<0, 1, 2>>
    /\ notified = << <<0, 1, 2>> >>

\* C5: disconnect() on a plot that is not connected raises nothing and
\* changes nothing: selection, style buffers, shift flag, HUD, listeners.
C5_DisconnectIdempotent ==
    [][(lastOp' = "disconnect" /\ ~_connected) =>
          /\ err' = None
          /\ UNCHANGED <<sel, hud, _shift, _select_callback, _lasso,
                         _figure_events, _keypress_events, canvas_callbacks,
                         _connected>>]_vars

\* C5 happens: disconnect() on a plot that was never connected and holds a
\* selection
C5_Witness ==
    /\ lastOp = "disconnect"
    /\ numConnects = 0
    /\ _inds = <<1, 0>>

\* C6: after disconnect() every listener connect() registered is gone (the
\* lasso, the button click handlers, the pointer and key listeners), shift
\* is off and the HUD is hidden.
C6_DisconnectTearsDown ==
    (lastOp = "disconnect" /\ err = None) =>
        /\ _lasso = None
        /\ canvas_callbacks = {}
        /\ \A i \in 1 .. Len(_buttons) : _buttons[i].observers = << >>
        /\ ~_shift
        /\ HudHidden

\* C7: the stored selection is always sorted ascending, without duplicates.
C7_Normalized == IsNormalized(_inds)

\* C8: the HUD is hidden or shown, never in between; hidden after
\* construction and after connect(); and while the plot is connected and
\* its window open it is shown exactly when the last pointer event was an
\* enter.
C8_HudStateMachine ==
    /\ HudShown \/ HudHidden
    /\ lastOp \in {"__init__", "connect"} => HudHidden
    /\ (_connected /\ ~closed) => (HudShown <=> lastPointer = "enter")

\* C8 happens: the pointer entered a connected plot that has a button, and
\* the title and the button show
C8_Witness ==
    /\ _connected
    /\ lastOp = "_onenter"
    /\ Len(_buttons) > 0
    /\ HudShown

\* C9: every button of _button_defs, from the constructor or registered
\* before connect(), is a HUD button: once the plot is connected and the
\* pointer has entered, it is visible and a click reaches its callback.
C9_ButtonsRealized ==
    (_connected /\ ~closed /\ lastOp = "_onenter") =>
        \A d \in 1 .. Len(_button_defs) :
            \E i \in 1 .. Len(_buttons) :
                /\ _buttons[i].label = _button_defs[d]
                /\ _buttons[i].visible
                /\ _button_defs[d] \in SetOf(_buttons[i].observers)

\* the positions of clickTrace at which a button's callback is invoked
CallbackSteps ==
    { k \in 1 .. Len(clickTrace) :
        clickTrace[k] \notin {"set_facecolor", "draw"} }

\* C10, as claimed: on a click the callback runs first, then the button is
\* restyled, then a redraw is requested.
C10_CallbackFirst ==
    lastOp = "click" =>
        \A k \in CallbackSteps :
            /\ k + 2 <= Len(clickTrace)
            /\ clickTrace[k + 1] = "set_facecolor"
            /\ clickTrace[k + 2] = "draw"

\* C10, amended: on a click the button is restyled first, then a redraw is
\* requested, then the callback runs.
C10_RestyleDrawCallback ==
    lastOp = "click" =>
        /\ CallbackSteps # {}
        /\ \A k \in CallbackSteps :
               /\ k >= 3
               /\ clickTrace[k - 2] = "set_facecolor"
               /\ clickTrace[k - 1] = "draw"

\* C10 happens: a button was clicked and its callback ran
C10_Witness ==
    /\ lastOp = "click"
    /\ clickTrace[Len(clickTrace)] = "custom"

\* C11: after a gesture or a programmatic selection that stores a non-empty
\* selection, every point's opacity is 1.0 if it is selected and alpha_other
\* otherwise; with expand_selected set every size is expand_selected times
\* the initial size if selected and the initial size otherwise, whatever the
\* sizes were before; without expand_selected the size buffer is untouched.
C11_StyleOfSelection ==
    [][(lastOp' \in {"_onselect", "_select_inds"} /\ err' = None
            /\ _inds' # << >>) =>
          /\ Len(_fc') = _num_pts
          /\ \A i \in Indices :
                 _fc'[i + 1] = IF i \in SetOf(_inds') THEN Opaque
                               ELSE alpha_other
          /\ IF expand_selected = NoExpand
             THEN _ms' = _ms
             ELSE /\ Len(_ms') = _num_pts
                  /\ \A i \in Indices :
                         _ms'[i + 1] = IF i \in SetOf(_inds')
                                       THEN expand_selected[1] * _init_ms
                                       ELSE _init_ms]_vars

\* C11 happens: with shift held a gesture added point 2 to a selection that
\* already held point 0, and the sizes are those of the new selection
C11_Witness ==
    /\ lastOp = "_onselect"
    /\ lastG = <<2>>
    /\ _inds = <<0, 2>>
    /\ expand_selected # NoExpand
    /\ _fc = <<Opaque, alpha_other, Opaque>>
    /\ _ms = <<expand_selected[1] * _init_ms, _init_ms,
               expand_selected[1] * _init_ms>>

\* C12: whenever a gesture with a non-empty path or a programmatic selection
\* leaves the selection empty, the operation raises nothing, every opacity is
\* 1.0, with expand_selected set every size is the initial size, and
\* any_selected is false.
C12_EmptyResets ==
    [][(/\ \/ lastOp' = "_select_inds"
           \/ lastOp' = "_onselect" /\ lastVertices' # << >>
        /\ _inds' = << >>) =>
          /\ err' = None
          /\ Len(_fc') = _num_pts
          /\ \A i \in Indices : _fc'[i + 1] = Opaque
          /\ expand_selected # NoExpand =>
                 /\ Len(_ms') = _num_pts
                 /\ \A i \in Indices : _ms'[i + 1] = _init_ms
          /\ ~(Len(_inds') > 0)]_vars

\* C13: whatever the click tolerance and the view, a gesture whose path is a
\* single vertex is classified as a click, never as a drag.
C13_SingleVertexIsClick ==
    (lastOp = "_onselect" /\ Len(lastVertices) = 1) => lastKind = "click"

\* C13, amended: a gesture whose path is a single vertex is classified as a
\* click exactly when the click threshold is positive, that is when the
\* tolerance is positive and the view has an extent on both axes; with a
\* threshold of zero it is classified as a drag, raises nothing and yields
\* the empty index set.
C13_SingleVertexClickIfPositive ==
    (lastOp = "_onselect" /\ Len(lastVertices) = 1) =>
        LET positive == /\ click_tolerance > 0
                        /\ xlim[1] # xlim[2]
                        /\ ylim[1] # ylim[2]
        IN  /\ err = None
            /\ lastKind = IF positive THEN "click" ELSE "drag"
            /\ ~positive => lastG = << >>

\* C13 happens: a single vertex on point 0 was classified as a click
C13_Witness ==
    /\ lastOp = "_onselect"
    /\ lastVertices = << <<10, 10>> >>
    /\ lastKind = "click"
    /\ lastG = <<0>>

\* C14: a gesture classified as a click yields at most one index; an index
\* it yields is that of a point nearest to the first vertex, at a distance
\* strictly below the click threshold; it yields none only if no point is
\* that close.
C14_ClickNearest ==
    (lastOp = "_onselect" /\ lastKind = "click" /\ err = None) =>
        LET q == lastVertices[1]
            thresh == ClickThresh(click_tolerance, xlim, ylim)
            Near(i) == 100 * 100 * Dist2(_xy[i + 1], q) < thresh * thresh
        IN  /\ Len(lastG) <= 1
            /\ \A i \in Indices :
                   lastG = <<i>> =>
                       /\ Near(i)
                       /\ \A j \in Indices :
                              Dist2(_xy[i + 1], q) <= Dist2(_xy[j + 1], q)
            /\ lastG = << >> => \A j \in Indices : ~Near(j)

\* C14 happens: a click half way between points 0 and 1, with a threshold
\* of 25, yields point 0
C14_Witness ==
    /\ lastOp = "_onselect"
    /\ lastKind = "click"
    /\ err = None
    /\ lastVertices = << <<30, 10>> >>
    /\ lastG = <<0>>

\* C15: a gesture with an empty vertex path raises nothing and stands for
\* the empty index set: without shift the selection becomes empty, with
\* shift it is unchanged.
C15_EmptyPath ==
    [][(lastOp' = "_onselect" /\ lastVertices' = << >>) =>
          /\ err' = None
          /\ lastG' = << >>
          /\ _inds' = IF _shift THEN _inds ELSE << >>]_vars

\* C16: once the window has been closed, a later disconnect() or a second
\* close event raises nothing and changes nothing: the close already left
\* the plot without its lasso and canvas listeners, with shift off and the
\* HUD hidden.
C16_DisconnectAfterClose ==
    [][(closed /\ lastOp' \in {"disconnect", "close_event"}) =>
          /\ err' = None
          /\ _lasso = None /\ canvas_callbacks = {} /\ ~_shift /\ HudHidden
          /\ UNCHANGED <<sel, hud, _shift, _select_callback, _lasso,
                         _figure_events, _keypress_events,
                         canvas_callbacks>>]_vars

\* C17: when a gesture changes the selection and the selection callback is
\* called, the handler has raised nothing, the callback's argument is the
\* merged result of the classified set, and what the callback can read from
\* the plot at that moment is already the new state: the stored selection
\* equals the argument and the opacity and size buffers are those of the
\* argument.
C17_CallbackSeesNewState ==
    [][(lastOp' = "_onselect" /\ notified' # << >>) =>
          /\ err' = None
          /\ Len(notified') = 1
          /\ notified'[1] = Merge(_shift, _inds, lastG')
          /\ seen' = << <<notified'[1],
                          UpdateFc(_fc, notified'[1], alpha_other),
                          UpdateMs(_ms, notified'[1], expand_selected,
                                   _init_ms)>> >>
          /\ seen'[1] = sel']_vars

\* C17 happens: with shift held a lasso around points 1 and 2 was added to
\* a selection of point 0, and the callback read the new selection
C17_Witness ==
    /\ lastOp = "_onselect"
    /\ _shift
    /\ lastG = <<1, 2>>
    /\ notified = << <<0, 1, 2>> >>
    /\ seen = << <<_inds, _fc, _ms>> >>
    /\ _fc = <<Opaque, Opaque, Opaque>>

\* C18: a key press or release changes neither the visibility of the HUD,
\* nor the selection, nor the style buffers, nor the wiring; a key other
\* than shift changes nothing at all; and while the plot is wired to its
\* canvas the title text is the add/remove text exactly when shift is held,
\* so the title a pointer-enter shows matches the shift flag.
C18_KeysOnlyShift ==
    /\ [](_lasso # None =>
             _title.text = IF _shift THEN ShiftText ELSE SelectText)
    /\ [](lastOp = "_onenter" =>
             /\ TitleShown
             /\ _title.text = IF _shift THEN ShiftText ELSE SelectText)
    /\ [][lastOp' \in {"_onkeypress", "_onkeyrelease"} =>
             /\ _title'.visible = _title.visible
             /\ UNCHANGED <<sel, _buttons, wiring, _select_callback>>
             /\ lastKey' # "shift" => UNCHANGED <<_title, _shift>>]_vars

\* C18 happens: with the HUD shown, shift was pressed and released again
\* and the title is back to the plain text
C18_Witness ==
    /\ lastOp = "_onkeyrelease"
    /\ lastKey = "shift"
    /\ lastPointer = "enter"
    /\ HudShown
    /\ ~_shift
    /\ _title.text = SelectText

\* C19: whatever connects and disconnects came before, a click on a HUD
\* button invokes that button's callback exactly once.
C19_ClickCallsOnce ==
    lastOp = "click" => Cardinality(CallbackSteps) = 1

\* C20: disconnect() and connect() leave the stored selection, the opacity
\* and size buffers and the registered selection callback as they were, so
\* a selection made before a disconnect is still there after it and after
\* the next connect.
C20_DisconnectKeepsSelection ==
    [][lastOp' \in {"disconnect", "connect"} =>
          /\ err' = None
          /\ UNCHANGED <<sel, _select_callback>>]_vars

\* C20 happens: a plot that holds a selection, its restyled buffers and a
\* selection callback has just been connected for the second time
C20_Witness ==
    /\ lastOp = "connect"
    /\ numConnects = 2
    /\ _inds = <<0, 1>>
    /\ _fc = <<Opaque, Opaque, alpha_other>>
    /\ _select_callback # None
====
